---- MODULE Spec2Model ----
(***************************************************************************)
(* Model of the extraction-and-aggregation pipeline of bio-data-analysis:  *)
(*   cleaning_data/edengue_processing.py   (normalize, col_by_index_or_name,*)
(*                                          detect_den_from_cols, process) *)
(*   edengue_import.py                     (remove_diacritics_upper,       *)
(*                                          extract_tc_rows_from_sheet,    *)
(*                                          process_file_to_edengue)       *)
(*   cleaning_data/fill_edengue_from_dmoss.py (remove_diacritics_ascii,    *)
(*                                          read_dmoss_sheet,              *)
(*                                          process_dmoss_file, main)      *)
(*                                                                         *)
(* Text is a sequence of characters; a character is named by a string      *)
(* ("a", "a_grave", "Dstroke", "sp", ...).  A cell or field value is a     *)
(* tagged record: Null (None / NaN / NaT), Str(s), Num(n, frac).           *)
(* Every component has its own variable and its own specification; the     *)
(* variables of the other components stay Idle.                            *)
(***************************************************************************)
EXTENDS Integers, Sequences, FiniteSets, TLC

VARIABLES norm, colres, rowx, gridx, aggr, dmoss, imp, cellx

vars == <<norm, colres, rowx, gridx, aggr, dmoss, imp, cellx>>

Idle == [pc |-> "idle"]

(***************************************************************************)
(* Values                                                                  *)
(***************************************************************************)
Null == [t |-> "null"]

Str(s) == [t |-> "str", v |-> s]

IsNull(x) == x.t = "null"

IsStr(x) == x.t = "str"

(***************************************************************************)
(* Characters: what unicodedata and str do on them                         *)
(***************************************************************************)
\* combining marks (category Mn, combining class > 0)
Marks == {"grave", "acute", "breve", "tilde", "circ", "dotbelow", "hook", "horn"}

\* white space for str.strip() and the regular expression \s
Spaces == {"sp", "nbsp", "tab"}

\* the precomposed lower-case letters and their canonical decompositions
Composed ==
    <<"a_grave", "a_acute", "a_breve_tilde", "a_circdot", "e_circdot", "i_dotbelow",
      "i_hook", "o_horn", "o_hornhook", "u_acute">>

Decomposed ==
    <<<<"a", "grave">>, <<"a", "acute">>, <<"a", "breve", "tilde">>,
      <<"a", "dotbelow", "circ">>, <<"e", "dotbelow", "circ">>, <<"i", "dotbelow">>,
      <<"i", "hook">>, <<"o", "horn">>, <<"o", "horn", "hook">>, <<"u", "acute">>>>

\* letters with an upper case: LowerChars[i] upper-cases to UpperChars[i]; the
\* stroke letters keep their stroke and have no decomposition
LowerChars ==
    <<"a", "b", "c", "d", "e", "g", "h", "i", "n", "o", "q", "s", "t", "u", "v", "x", "y",
      "a_grave", "a_acute", "a_breve_tilde", "a_circdot", "e_circdot", "i_dotbelow",
      "i_hook", "o_horn", "o_hornhook", "u_acute", "dstroke">>

UpperChars ==
    <<"A", "B", "C", "D", "E", "G", "H", "I", "N", "O", "Q", "S", "T", "U", "V", "X", "Y",
      "A_grave", "A_acute", "A_breve_tilde", "A_circdot", "E_circdot", "I_dotbelow",
      "I_hook", "O_horn", "O_hornhook", "U_acute", "Dstroke">>

\* str.upper() on one character
UpperChar(c) ==
    IF \E i \in 1..Len(LowerChars) : LowerChars[i] = c
    THEN UpperChars[CHOOSE i \in 1..Len(LowerChars) : LowerChars[i] = c]
    ELSE c

IndexOf(seq, c) == CHOOSE i \in 1..Len(seq) : seq[i] = c

In(seq, c) == \E i \in 1..Len(seq) : seq[i] = c

\* canonical decomposition of one character (unicodedata.normalize("NFD"))
CanonDecomp(c) ==
    IF In(Composed, c) THEN Decomposed[IndexOf(Composed, c)]
    ELSE IF In(UpperChars, c) /\ In(Composed, LowerChars[IndexOf(UpperChars, c)])
    THEN LET d == Decomposed[IndexOf(Composed, LowerChars[IndexOf(UpperChars, c)])]
         IN  <<UpperChars[IndexOf(LowerChars, Head(d))]>> \o Tail(d)
    ELSE <<c>>

\* compatibility decomposition of one character (unicodedata.normalize("NFKD"))
CompatDecomp(c) ==
    IF c = "nbsp" THEN <<"sp">> ELSE CanonDecomp(c)

(***************************************************************************)
(* Strings                                                                 *)
(***************************************************************************)
\* unicodedata.normalize("NFD", s)
RECURSIVE NFD(_)
NFD(s) ==
    IF s = <<>> THEN <<>> ELSE CanonDecomp(Head(s)) \o NFD(Tail(s))

\* unicodedata.normalize("NFKD", s)
RECURSIVE NFKD(_)
NFKD(s) ==
    IF s = <<>> THEN <<>> ELSE CompatDecomp(Head(s)) \o NFKD(Tail(s))

Upper(s) == [i \in 1..Len(s) |-> UpperChar(s[i])]

\* "".join(c for c in s if category(c) != "Mn") / if not combining(c)
DropMarks(s) == SelectSeq(s, LAMBDA c : c \notin Marks)

RECURSIVE LStrip(_)
LStrip(s) ==
    IF s # <<>> /\ Head(s) \in Spaces THEN LStrip(Tail(s)) ELSE s

RECURSIVE RStrip(_)
RStrip(s) ==
    IF s # <<>> /\ s[Len(s)] \in Spaces THEN RStrip(SubSeq(s, 1, Len(s) - 1)) ELSE s

\* str.strip()
Strip(s) == RStrip(LStrip(s))

\* re.sub(r'\s+', ' ', s)
RECURSIVE CollapseSpaces(_)
CollapseSpaces(s) ==
    IF s = <<>> THEN <<>>
    ELSE IF Head(s) \in Spaces
         THEN <<"sp">> \o CollapseSpaces(LStrip(s))
         ELSE <<Head(s)>> \o CollapseSpaces(Tail(s))

\* s.replace('Đ','D').replace('đ','d')
ReplaceStroke(s) ==
    [i \in 1..Len(s) |->
        CASE s[i] = "Dstroke" -> "D" [] s[i] = "dstroke" -> "d" [] OTHER -> s[i]]

\* u in s
Contains(s, u) ==
    \E i \in 0..(Len(s) - Len(u)) : SubSeq(s, i + 1, i + Len(u)) = u

(***************************************************************************)
(* The normalizers of the key fields                                       *)
(***************************************************************************)
\* a slip: trimming before the marks are dropped instead of after
normalize_TrimFirst(text) ==
    IF IsNull(text) THEN Null
    ELSE Str(Upper(DropMarks(NFD(Strip(text.v)))))

\* edengue_processing.normalize
normalize(text) ==
    IF IsNull(text) THEN Null
    ELSE Str(Strip(Upper(DropMarks(NFD(text.v)))))

\* edengue_import.remove_diacritics_upper
remove_diacritics_upper(s) ==
    IF IsNull(s) THEN s
    ELSE Str(Upper(Strip(CollapseSpaces(ReplaceStroke(DropMarks(NFKD(Strip(s.v))))))))

\* fill_edengue_from_dmoss.remove_diacritics_ascii (s is a str: a sheet name)
remove_diacritics_ascii(s) ==
    IF ~IsStr(s) THEN s
    ELSE Str(DropMarks(NFKD(ReplaceStroke(s.v))))

\* process_dmoss_file: province = remove_diacritics_ascii(sheet_name).upper()
DmossProvince(sheet_name) == Str(Upper(remove_diacritics_ascii(sheet_name).v))

\* process_file_to_edengue: prov_name given, or taken from the file name, whose
\* stem is the base name without its extension and its GSTX suffix
ProvName(prov_name, stem) ==
    IF IsNull(prov_name) THEN Str(Upper(Strip(stem.v)))
    ELSE Str(Upper(Strip(prov_name.v)))

(***************************************************************************)
(* TextNormalizer: one normalizer is applied to one key-field text         *)
(***************************************************************************)
MaxTextLen == 3

NormChars == {"a", "a_grave", "grave", "dstroke", "Dstroke", "sp", "nbsp"}

BoundedSeqs(S, n) == UNION {[1..k -> S] : k \in 0..n}

\* "Đà Nẵng"
DaNang == <<"Dstroke", "a_grave", "sp", "N", "a_breve_tilde", "n", "g">>

\* " Quận  1 " without the circumflex: a district label with inner and outer blanks
QuanMot == <<"sp", "Q", "u", "a_grave", "n", "sp", "tab", "1", "sp">>

NormInputs ==
    {Null} \cup {Str(s) : s \in BoundedSeqs(NormChars, MaxTextLen) \cup {DaNang, QuanMot}}

\* file-name stems process_file_to_edengue falls back on
Stems == {Str(<<"a", "n", "sp">>), Str(<<"dstroke", "a_grave">>)}

InitNorm ==
    /\ norm \in {[pc |-> "start", text |-> x, fn |-> "none", out |-> Null] : x \in NormInputs}
    /\ colres = Idle /\ rowx = Idle /\ gridx = Idle
    /\ aggr = Idle /\ dmoss = Idle /\ imp = Idle /\ cellx = Idle

NormOthers == <<colres, rowx, gridx, aggr, dmoss, imp, cellx>>

\* edengue_processing.process: df[province_col].apply(normalize)
ApplyNormalize ==
    /\ norm.pc = "start"
    /\ norm' = [norm EXCEPT !.pc = "done", !.fn = "normalize", !.out = normalize(norm.text)]
    /\ UNCHANGED NormOthers

\* extract_tc_rows_from_sheet: "district": remove_diacritics_upper(district)
ApplyRemoveDiacriticsUpper ==
    /\ norm.pc = "start"
    /\ norm' = [norm EXCEPT !.pc = "done", !.fn = "remove_diacritics_upper",
                            !.out = remove_diacritics_upper(norm.text)]
    /\ UNCHANGED NormOthers

\* process_dmoss_file: the sheet name (always a str) becomes the province
ApplyDmossProvince ==
    /\ norm.pc = "start"
    /\ IsStr(norm.text)
    /\ norm' = [norm EXCEPT !.pc = "done", !.fn = "dmoss_province",
                            !.out = DmossProvince(norm.text)]
    /\ UNCHANGED NormOthers

\* process_file_to_edengue: the province of every Record of the file
ApplyProvName ==
    /\ norm.pc = "start"
    /\ \E stem \in Stems :
          norm' = [norm EXCEPT !.pc = "done", !.fn = "prov_name",
                               !.out = ProvName(norm.text, stem)]
    /\ UNCHANGED NormOthers

NextNorm ==
    \/ ApplyNormalize
    \/ ApplyRemoveDiacriticsUpper
    \/ ApplyDmossProvince
    \/ ApplyProvName

SpecNorm == InitNorm /\ [][NextNorm]_vars

\* the normalization the specification describes: marks removed, Đ/đ mapped to D,
\* white space runs collapsed to one space, edges trimmed, upper-cased
RefNormalize(s) ==
    Upper(Strip(CollapseSpaces(ReplaceStroke(DropMarks(NFKD(s))))))

\* C1: for every non-null text, each normalizer applied to a key field (province,
\* district) of an extraction path returns the reference normalization.
C1_KeyFieldIsReferenceNormalized ==
    (norm.pc = "done" /\ ~IsNull(norm.text))
        => norm.out = Str(RefNormalize(norm.text.v))

\* C1, the example: "Đà Nẵng" becomes "DA NANG" under edengue_processing.normalize
C1_DaNangCase ==
    /\ norm.pc = "done"
    /\ norm.fn = "normalize"
    /\ norm.text = Str(DaNang)
    /\ norm.out = Str(<<"Dstroke", "A", "sp", "N", "A", "N", "G">>)

\* C2: normalize and remove_diacritics_upper are idempotent: applied to their own
\* result (null included) they return it unchanged.
C2_Idempotent ==
    norm.pc = "done" =>
        /\ norm.fn = "normalize" => normalize(norm.out) = norm.out
        /\ norm.fn = "remove_diacritics_upper"
              => remove_diacritics_upper(norm.out) = norm.out

C2_Witness ==
    /\ norm.pc = "done"
    /\ norm.fn = "normalize"
    /\ norm.text = Str(<<"sp", "a_grave", "sp">>)
    /\ norm.out = Str(<<"A">>)

(***************************************************************************)
(* ColumnResolver: edengue_processing.col_by_index_or_name                 *)
(***************************************************************************)
\* the decimal digits, in order of value
DecDigits == <<"0", "1", "2", "3", "4", "5", "6", "7", "8", "9">>

IsDecDigit(c) == In(DecDigits, c)

\* characters str.isdigit() accepts; int() raises ValueError on the superscript
DigitChars == {DecDigits[i] : i \in 1..Len(DecDigits)} \cup {"sup2"}

DigitVal(c) == IF IsDecDigit(c) THEN IndexOf(DecDigits, c) - 1 ELSE 0

\* str.isdigit(): not empty and every character a digit
IsDigit(s) == s # <<>> /\ \A i \in 1..Len(s) : s[i] \in DigitChars

\* int(s) succeeds on a digit string
IntParses(s) == IsDigit(s) /\ \A i \in 1..Len(s) : s[i] # "sup2"

RECURSIVE IntOf(_)
IntOf(s) ==
    IF s = <<>> THEN 0 ELSE 10 * IntOf(SubSeq(s, 1, Len(s) - 1)) + DigitVal(s[Len(s)])

\* for c in df.columns: if str(c) == idx_or_name: return c
RECURSIVE ExactMatch(_, _)
ExactMatch(columns, name) ==
    IF columns = <<>> THEN Null
    ELSE IF Head(columns) = name THEN Str(Head(columns))
    ELSE ExactMatch(Tail(columns), name)

\* for c in df.columns: if u in str(c).upper(): return c
RECURSIVE ContainsMatch(_, _)
ContainsMatch(columns, u) ==
    IF columns = <<>> THEN Null
    ELSE IF Contains(Upper(Head(columns)), u) THEN Str(Head(columns))
    ELSE ContainsMatch(Tail(columns), u)

\* the fallback to name matching
NameMatch(columns, name) ==
    IF ~IsNull(ExactMatch(columns, name)) THEN ExactMatch(columns, name)
    ELSE ContainsMatch(columns, Upper(name))

\* a slip: the label is looked up before the position is tried
col_by_index_or_name_NameFirst(columns, idx_or_name) ==
    IF IsNull(idx_or_name) THEN Null
    ELSE IF ~IsNull(ExactMatch(columns, idx_or_name.v)) THEN ExactMatch(columns, idx_or_name.v)
    ELSE IF IntParses(idx_or_name.v)
         THEN IF IntOf(idx_or_name.v) < Len(columns)
              THEN Str(columns[IntOf(idx_or_name.v) + 1])
              ELSE Null
         ELSE ContainsMatch(columns, Upper(idx_or_name.v))

\* a slip: the exact pass is missing, the first containing label wins
col_by_index_or_name_NoExact(columns, idx_or_name) ==
    IF IsNull(idx_or_name) THEN Null
    ELSE IF IsDigit(idx_or_name.v) /\ IntParses(idx_or_name.v)
         THEN IF IntOf(idx_or_name.v) < Len(columns)
              THEN Str(columns[IntOf(idx_or_name.v) + 1])
              ELSE Null
         ELSE ContainsMatch(columns, Upper(idx_or_name.v))

\* col_by_index_or_name(df, idx_or_name); columns are df.columns, the token is a
\* str or None (the command line passes strings)
col_by_index_or_name(columns, idx_or_name) ==
    IF IsNull(idx_or_name) THEN Null
    ELSE IF IsDigit(idx_or_name.v) /\ IntParses(idx_or_name.v)
         THEN IF IntOf(idx_or_name.v) < Len(columns)
              THEN Str(columns[IntOf(idx_or_name.v) + 1])
              ELSE Null
         ELSE NameMatch(columns, idx_or_name.v)

MaxCols == 3

MaxTokLen == 2

TokenChars == {"0", "1", "3", "t", "T", "sup2"}

Labels == {<<"T">>, <<"t">>, <<"x", "t">>, <<"1">>, <<"1", "3">>}

Tokens == {Null} \cup {Str(s) : s \in BoundedSeqs(TokenChars, MaxTokLen)}

InitCol ==
    /\ colres \in {[pc |-> "start", columns |-> cs, token |-> tk, out |-> Null] :
                      cs \in BoundedSeqs(Labels, MaxCols), tk \in Tokens}
    /\ norm = Idle /\ rowx = Idle /\ gridx = Idle
    /\ aggr = Idle /\ dmoss = Idle /\ imp = Idle /\ cellx = Idle

Resolve ==
    /\ colres.pc = "start"
    /\ colres' = [colres EXCEPT !.pc = "done",
                                !.out = col_by_index_or_name(colres.columns, colres.token)]
    /\ UNCHANGED <<norm, rowx, gridx, aggr, dmoss, imp, cellx>>

NextCol == Resolve

SpecCol == InitCol /\ [][NextCol]_vars

\* the token is a decimal digit string naming a position of the table
InRangeInt(columns, token) ==
    /\ IsStr(token)
    /\ IntParses(token.v)
    /\ IntOf(token.v) < Len(columns)

\* positions (1-based) whose label equals the token / contains it upper-cased
ExactAt(columns, tok) == {i \in 1..Len(columns) : columns[i] = tok}

ContainsAt(columns, tok) ==
    {i \in 1..Len(columns) : Contains(Upper(columns[i]), Upper(tok))}

First(S) == CHOOSE i \in S : \A j \in S : i <= j

\* what name matching is to return: the exactly equal label, else the first label
\* containing the token without regard to case, else not-found
NameResult(columns, tok) ==
    IF ExactAt(columns, tok) # {} THEN Str(tok)
    ELSE IF ContainsAt(columns, tok) # {} THEN Str(columns[First(ContainsAt(columns, tok))])
    ELSE Null

\* C3: a token that parses as a non-negative integer smaller than the column count
\* resolves to the column at that zero-based position, whatever the labels are.
C3_PositionWins ==
    (colres.pc = "done" /\ InRangeInt(colres.columns, colres.token))
        => colres.out = Str(colres.columns[IntOf(colres.token.v) + 1])

\* token "1" on a table with a label "1" in first place: the second column is returned
C3_Witness ==
    /\ colres.pc = "done"
    /\ colres.token = Str(<<"1">>)
    /\ colres.columns = <<<<"1">>, <<"x", "t">>, <<"1", "3">>>>
    /\ colres.out = Str(<<"x", "t">>)

\* C4 as stated: every token that is not an in-range non-negative integer (an
\* out-of-range digit token included) is resolved by name matching.
C4_NameMatchingUnlessInRange ==
    (colres.pc = "done" /\ IsStr(colres.token)
        /\ ~InRangeInt(colres.columns, colres.token))
        => colres.out = NameResult(colres.columns, colres.token.v)

\* C4 amended: a token that int() does not parse is resolved by name matching
\* (exact label, else first containing label, else not-found); a digit token at or
\* beyond the column count is not-found, whatever the labels are.
C4_NameMatchingForNonIntegers ==
    (colres.pc = "done" /\ IsStr(colres.token)
        /\ ~InRangeInt(colres.columns, colres.token))
        => colres.out = IF IntParses(colres.token.v) THEN Null
                        ELSE NameResult(colres.columns, colres.token.v)

\* the exact label "t" in second place wins over the containing label "xt" before it
C4_Witness ==
    /\ colres.pc = "done"
    /\ colres.token = Str(<<"t">>)
    /\ colres.columns = <<<<"x", "t">>, <<"t">>>>
    /\ colres.out = Str(<<"t">>)

(***************************************************************************)
(* Numbers in cells                                                        *)
(***************************************************************************)
\* a Python int
PyInt(n) == [t |-> "int", v |-> n]

\* a Python float of value m / 10^e (e = 0: an integral float such as 3.0)
PyFloat(m, e) == [t |-> "float", m |-> m, e |-> e]

IsInt(x) == x.t = "int"

IsFloat(x) == x.t = "float"

RECURSIVE Pow10(_)
Pow10(e) == IF e = 0 THEN 1 ELSE 10 * Pow10(e - 1)

Abs(n) == IF n < 0 THEN -n ELSE n

\* str(n) of an int n >= 0
RECURSIVE NatToStr(_)
NatToStr(n) ==
    IF n < 10 THEN <<DecDigits[n + 1]>>
    ELSE NatToStr(n \div 10) \o <<DecDigits[(n % 10) + 1]>>

\* the e digits of f, zero-padded on the left
RECURSIVE FracToStr(_, _)
FracToStr(f, e) ==
    IF e = 0 THEN <<>> ELSE FracToStr(f \div 10, e - 1) \o <<DecDigits[(f % 10) + 1]>>

\* str(val) of a cell that is not null
StrOf(val) ==
    CASE IsStr(val) -> val.v
      [] IsInt(val) -> (IF val.v < 0 THEN <<"-">> ELSE <<>>) \o NatToStr(Abs(val.v))
      [] IsFloat(val) ->
            (IF val.m < 0 THEN <<"-">> ELSE <<>>)
            \o NatToStr(Abs(val.m) \div Pow10(val.e)) \o <<".">>
            \o (IF val.e = 0 THEN <<"0">> ELSE FracToStr(Abs(val.m) % Pow10(val.e), val.e))

AllDecDigits(s) == s # <<>> /\ \A i \in 1..Len(s) : IsDecDigit(s[i])

\* t without its leading minus sign
Unsigned(t) == IF t # <<>> /\ Head(t) = "-" THEN Tail(t) ELSE t

DotsOf(t) == {i \in 1..Len(t) : t[i] = "."}

\* re.fullmatch(r'-?\d+(\.\d+)?', t)
LooksNumeric(t) ==
    LET b == Unsigned(t)
    IN  IF DotsOf(b) = {} THEN AllDecDigits(b)
        ELSE /\ Cardinality(DotsOf(b)) = 1
             /\ LET p == CHOOSE i \in DotsOf(b) : TRUE
                IN  /\ AllDecDigits(SubSeq(b, 1, p - 1))
                    /\ AllDecDigits(SubSeq(b, p + 1, Len(b)))

RECURSIVE DropTrailingZeros(_)
DropTrailingZeros(s) ==
    IF s # <<>> /\ s[Len(s)] = "0" THEN DropTrailingZeros(SubSeq(s, 1, Len(s) - 1)) ELSE s

\* n = float(t); int(n) if n.is_integer() else n, for a t that LooksNumeric
ParseNumber(t) ==
    LET b == Unsigned(t)
        sign == IF b = t THEN 1 ELSE -1
        p == IF DotsOf(b) = {} THEN Len(b) + 1 ELSE CHOOSE i \in DotsOf(b) : TRUE
        whole == IntOf(SubSeq(b, 1, p - 1))
        frac == DropTrailingZeros(SubSeq(b, p + 1, Len(b)))
    IN  IF frac = <<>> THEN PyInt(sign * whole)
        ELSE PyFloat(sign * (whole * Pow10(Len(frac)) + IntOf(frac)), Len(frac))

\* v.replace(",", "")
DropCommas(s) == SelectSeq(s, LAMBDA c : c # ",")

(***************************************************************************)
(* RowExtractor: edengue_import.extract_tc_rows_from_sheet                 *)
(* A sheet (df, header=None) is its rows, each a sequence of `width` cells.*)
(* Rows and columns are numbered from 1 here, from 0 in the code.          *)
(***************************************************************************)
\* the default bad_keywords
BadKeywords ==
    <<<<"Dstroke", "i_dotbelow", "a">>,
      <<"S", "O_hornhook">>,
      <<"B", "A_acute", "O">>,
      <<"G", "h", "i", "sp", "c", "h", "u_acute">>,
      <<"T", "O", "A_grave", "N", "sp", "T", "I_hook", "N", "H">>,
      <<"N", "o_horn", "i", "sp", "n", "h", "a_circdot", "n">>,
      <<"V", "i", "e_circdot", "n">>,
      <<"N", "g", "a_grave", "y">>,
      <<"T", "C">>>>

\* the year written into every Record
HardYear == 2025

\* r.astype(str).str.strip().str.upper().eq("TC"); str(NaN) is "nan"
IsMarkerCell(cell) ==
    ~IsNull(cell) /\ Upper(Strip(StrOf(cell))) = <<"T", "C">>

\* tc_mask: any cell of the row is a marker cell
IsMarkerRow(row) == \E j \in 1..Len(row) : IsMarkerCell(row[j])

\* any(k.upper() in s.upper() for k in bad_keywords)
HasKeyword(s, bad_keywords) ==
    \E k \in 1..Len(bad_keywords) : Contains(Upper(s), Upper(bad_keywords[k]))

\* for i in range(idx-1, -1, -1) over column col, from row i upward: the stripped
\* text of the first cell that is not NaN, not blank and holds no keyword
RECURSIVE SearchUp(_, _, _, _)
SearchUp(rows, i, col, bad_keywords) ==
    IF i < 1 THEN Null
    ELSE IF IsNull(rows[i][col]) THEN SearchUp(rows, i - 1, col, bad_keywords)
    ELSE IF Strip(StrOf(rows[i][col])) = <<>> THEN SearchUp(rows, i - 1, col, bad_keywords)
    ELSE IF HasKeyword(Strip(StrOf(rows[i][col])), bad_keywords)
         THEN SearchUp(rows, i - 1, col, bad_keywords)
    ELSE Str(Strip(StrOf(rows[i][col])))

\* a slip: the scan starts at the marker row itself, range(idx, -1, -1)
DistrictLabel_FromMarkerRow(rows, width, idx, bad_keywords) ==
    LET d0 == IF width = 0 THEN Null ELSE SearchUp(rows, idx, 1, bad_keywords)
        d1 == IF ~IsNull(d0) THEN d0
              ELSE IF width > 1 THEN SearchUp(rows, idx, 2, bad_keywords)
              ELSE Null
    IN  IF IsNull(d1) THEN Str(<<"U", "N", "K", "N", "O", "W", "N">>) ELSE d1

\* the district of marker row idx: column 0, then column 1, then "UNKNOWN"
DistrictLabel(rows, width, idx, bad_keywords) ==
    LET d0 == IF width = 0 THEN Null ELSE SearchUp(rows, idx - 1, 1, bad_keywords)
        d1 == IF ~IsNull(d0) THEN d0
              ELSE IF width > 1 THEN SearchUp(rows, idx - 1, 2, bad_keywords)
              ELSE Null
    IN  IF IsNull(d1) THEN Str(<<"U", "N", "K", "N", "O", "W", "N">>) ELSE d1

\* a slip: a blank or missing cell is read as None, as get_cell reads it
safe_get_NullForBlank(rows, width, r, c) ==
    IF c >= width THEN Null
    ELSE IF IsNull(rows[r][c + 1]) THEN Null
    ELSE IF IsStr(rows[r][c + 1])
         THEN IF LooksNumeric(DropCommas(Strip(rows[r][c + 1].v)))
              THEN ParseNumber(DropCommas(Strip(rows[r][c + 1].v)))
              ELSE PyInt(0)
    ELSE rows[r][c + 1]

\* safe_get(r, c), c counted from 0: IndexError and any other exception give 0
safe_get(rows, width, r, c) ==
    IF c >= width THEN PyInt(0)
    ELSE IF IsNull(rows[r][c + 1]) THEN PyInt(0)
    ELSE IF IsStr(rows[r][c + 1])
         THEN IF LooksNumeric(DropCommas(Strip(rows[r][c + 1].v)))
              THEN ParseNumber(DropCommas(Strip(rows[r][c + 1].v)))
              ELSE PyInt(0)
    ELSE rows[r][c + 1]

\* the dict appended for marker row idx
TcRecord(rows, width, idx, month_val, prov_name, col_indices_map, bad_keywords) ==
    [province |-> prov_name,
     district |-> remove_diacritics_upper(DistrictLabel(rows, width, idx, bad_keywords)),
     year |-> HardYear,
     month |-> month_val,
     den1 |-> safe_get(rows, width, idx, col_indices_map[1]),
     den2 |-> safe_get(rows, width, idx, col_indices_map[2]),
     den3 |-> safe_get(rows, width, idx, col_indices_map[3]),
     den4 |-> safe_get(rows, width, idx, col_indices_map[4]),
     total_test |-> safe_get(rows, width, idx, col_indices_map[5])]

\* for idx in tc_indices, from row `from` on
RECURSIVE TcRowsFrom(_, _, _, _, _, _, _)
TcRowsFrom(rows, width, from, month_val, prov_name, col_indices_map, bad_keywords) ==
    IF from > Len(rows) THEN <<>>
    ELSE (IF IsMarkerRow(rows[from])
          THEN <<TcRecord(rows, width, from, month_val, prov_name,
                          col_indices_map, bad_keywords)>>
          ELSE <<>>)
         \o TcRowsFrom(rows, width, from + 1, month_val, prov_name,
                       col_indices_map, bad_keywords)

\* extract_tc_rows_from_sheet(df, month_val, prov_name, col_indices_map)
extract_tc_rows_from_sheet(rows, width, month_val, prov_name, col_indices_map) ==
    TcRowsFrom(rows, width, 1, month_val, prov_name, col_indices_map, BadKeywords)

(***************************************************************************)
(* RowExtractor: one sheet is extracted                                    *)
(***************************************************************************)
MaxRows == 3

\* "Quan 1"
LabelQuan1 == Str(<<"Q", "u", "a", "n", "sp", "1">>)

\* " đà "
LabelDa == Str(<<"sp", "dstroke", "a_grave", "sp">>)

\* "ngày 5": holds the keyword "Ngày" in another case
BoilerNgay == Str(<<"n", "g", "a_grave", "y", "sp", "5">>)

\* "Viện"
BoilerVien == Str(<<"V", "i", "e_circdot", "n">>)

BlankText == Str(<<"sp", "sp">>)

\* rows of three cells; a narrower sheet keeps the first cells of each
RowTemplates ==
    { <<Null, Null, Null>>,
      <<LabelQuan1, Null, PyInt(3)>>,
      <<BlankText, LabelDa, Null>>,
      <<BoilerNgay, Null, Null>>,
      <<BoilerNgay, LabelDa, Str(<<"x">>)>>,
      <<Str(<<"T", "C">>), Str(<<"1", "2">>), Str(<<"1", ",", "5">>)>>,
      <<Null, Str(<<"sp", "t", "c", "sp">>), PyFloat(25, 1)>>,
      <<PyInt(7), BoilerVien, Str(<<"T", "C">>)>> }

\* marker "TC" at row 10, "Quan 1" at row 8 column 0, row 9 blank, boilerplate above
ExampleRows ==
    <<<<BoilerNgay, Null, Null>>, <<Null, Null, Null>>, <<Null, Null, Null>>,
      <<Null, BoilerVien, Null>>, <<Null, Null, Null>>, <<Null, Null, Null>>,
      <<Null, Null, Null>>, <<Null, Null, Null>>, <<LabelQuan1, Null, Null>>,
      <<Null, Null, Null>>, <<Str(<<"T", "C">>), Str(<<"1", "2">>), Null>>>>

Truncate(rows, w) == [i \in 1..Len(rows) |-> SubSeq(rows[i], 1, w)]

\* the caller's col_indices_map and month_val: the default map, and a narrow one
RowConfigs ==
    { [col_indices_map |-> <<3, 4, 5, 6, 7>>, month_val |-> 7],
      [col_indices_map |-> <<1, 2, 1, 2, 2>>, month_val |-> 10] }

ProvAnGiang == Str(<<"A", "N", "sp", "G", "I", "A", "N", "G">>)

InitRow ==
    /\ rowx \in {[pc |-> "start", rows |-> Truncate(g, w), width |-> w,
                  col_indices_map |-> cfg.col_indices_map, month_val |-> cfg.month_val,
                  prov_name |-> ProvAnGiang, out |-> <<>>] :
                    g \in BoundedSeqs(RowTemplates, MaxRows) \cup {ExampleRows},
                    w \in 0..3, cfg \in RowConfigs}
    /\ norm = Idle /\ colres = Idle /\ gridx = Idle
    /\ aggr = Idle /\ dmoss = Idle /\ imp = Idle /\ cellx = Idle

ExtractTcRows ==
    /\ rowx.pc = "start"
    /\ rowx' = [rowx EXCEPT !.pc = "done",
                            !.out = extract_tc_rows_from_sheet(rowx.rows, rowx.width,
                                        rowx.month_val, rowx.prov_name,
                                        rowx.col_indices_map)]
    /\ UNCHANGED <<norm, colres, gridx, aggr, dmoss, imp, cellx>>

NextRow == ExtractTcRows

SpecRow == InitRow /\ [][NextRow]_vars

\* the marker rows of the sheet, and the place of marker row r among them
MarkerRows(rows) == {i \in 1..Len(rows) : IsMarkerRow(rows[i])}

Rank(rows, r) == Cardinality({m \in MarkerRows(rows) : m <= r})

\* rows above r whose cell in column col is non-blank and free of boilerplate
LabelRows(rows, r, col) ==
    {i \in 1..(r - 1) :
        /\ ~IsNull(rows[i][col])
        /\ Strip(StrOf(rows[i][col])) # <<>>
        /\ ~HasKeyword(Strip(StrOf(rows[i][col])), BadKeywords)}

Last(S) == CHOOSE i \in S : \A j \in S : j <= i

\* the district the specification gives marker row r
ExpectedDistrict(rows, width, r) ==
    IF width >= 1 /\ LabelRows(rows, r, 1) # {}
    THEN Str(RefNormalize(StrOf(rows[Last(LabelRows(rows, r, 1))][1])))
    ELSE IF width >= 2 /\ LabelRows(rows, r, 2) # {}
    THEN Str(RefNormalize(StrOf(rows[Last(LabelRows(rows, r, 2))][2])))
    ELSE Str(<<"U", "N", "K", "N", "O", "W", "N">>)

\* C5: the district of every marker row is the normalized text of the nearest
\* non-blank, non-boilerplate cell above it in column 0, else in column 1, else
\* "UNKNOWN".
C5_DistrictIsNearestLabelAbove ==
    rowx.pc = "done" =>
        /\ Len(rowx.out) = Cardinality(MarkerRows(rowx.rows))
        /\ \A r \in MarkerRows(rowx.rows) :
              rowx.out[Rank(rowx.rows, r)].district
                  = ExpectedDistrict(rowx.rows, rowx.width, r)

\* the example: label two rows above the marker, a blank row between
C5_Witness ==
    /\ rowx.pc = "done"
    /\ rowx.rows = ExampleRows
    /\ Len(rowx.out) = 1
    /\ rowx.out[1].district = Str(<<"Q", "U", "A", "N", "sp", "1">>)

\* only boilerplate above the marker: the placeholder
C5_UnknownCase ==
    /\ rowx.pc = "done"
    /\ rowx.rows = <<<<BoilerNgay, Null, Null>>,
                     <<Str(<<"T", "C">>), Str(<<"1", "2">>), Str(<<"1", ",", "5">>)>>>>
    /\ rowx.out[1].district = Str(<<"U", "N", "K", "N", "O", "W", "N">>)

(***************************************************************************)
(* GridMetricExtractor: fill_edengue_from_dmoss.read_dmoss_sheet           *)
(***************************************************************************)
\* fill_edengue_from_dmoss.py stores its quote characters escaped (\"), so the file
\* as stored does not compile; it is read here with the escapes undone.
\* for i, month in enumerate(range(1, 13))
MonthsPerYear == 12

\* a slip: a blank cell read as 0, as the heuristic path does
get_cell_ZeroForBlank(rows, width, r, col_idx) ==
    IF r >= Len(rows) \/ col_idx >= width THEN PyInt(0)
    ELSE IF IsNull(rows[r + 1][col_idx + 1]) THEN PyInt(0)
    ELSE IF IsFloat(rows[r + 1][col_idx + 1])
            /\ rows[r + 1][col_idx + 1].m % Pow10(rows[r + 1][col_idx + 1].e) = 0
         THEN PyInt(rows[r + 1][col_idx + 1].m \div Pow10(rows[r + 1][col_idx + 1].e))
    ELSE rows[r + 1][col_idx + 1]

\* get_cell(r) at column col_idx, both counted from 0: IndexError gives None, NaN
\* gives None, an integral float becomes an int, anything else is returned as it is
get_cell(rows, width, r, col_idx) ==
    IF r >= Len(rows) \/ col_idx >= width THEN Null
    ELSE IF IsNull(rows[r + 1][col_idx + 1]) THEN Null
    ELSE IF IsFloat(rows[r + 1][col_idx + 1])
            /\ rows[r + 1][col_idx + 1].m % Pow10(rows[r + 1][col_idx + 1].e) = 0
         THEN PyInt(rows[r + 1][col_idx + 1].m \div Pow10(rows[r + 1][col_idx + 1].e))
    ELSE rows[r + 1][col_idx + 1]

\* the dict of one month; metric_rows = <<d1_row, d2_row, d3_row, d4_row, total_row>>
DmossMonth(rows, width, metric_rows, months_col_start, month) ==
    [Month |-> month,
     den1 |-> get_cell(rows, width, metric_rows[1], months_col_start + month - 1),
     den2 |-> get_cell(rows, width, metric_rows[2], months_col_start + month - 1),
     den3 |-> get_cell(rows, width, metric_rows[3], months_col_start + month - 1),
     den4 |-> get_cell(rows, width, metric_rows[4], months_col_start + month - 1),
     total_test |-> get_cell(rows, width, metric_rows[5], months_col_start + month - 1)]

\* read_dmoss_sheet(df, d1_row, d2_row, d3_row, d4_row, total_row, months_col_start)
read_dmoss_sheet(rows, width, metric_rows, months_col_start) ==
    [month \in 1..MonthsPerYear |->
        DmossMonth(rows, width, metric_rows, months_col_start, month)]

MaxGridRows == 7

MaxGridCols == 14

MaxSeed == 4

\* what a cell of a matrix sheet may hold: blank, a reported zero, an integral
\* float, a fractional float, a text
GridVals == <<Null, PyInt(0), PyFloat(3, 0), PyFloat(25, 1), Str(<<"x">>)>>

\* a sheet of nr rows and nc columns filled along diagonals from the seed
PatternSheet(nr, nc, a, b, seed) ==
    [r \in 1..nr |-> [c \in 1..nc |-> GridVals[((a * r + b * c + seed) % Len(GridVals)) + 1]]]

\* the default row offsets, and offsets that share rows
MetricRowChoices == {<<1, 2, 3, 4, 6>>, <<0, 1, 0, 2, 9>>}

InitGrid ==
    /\ gridx \in {[pc |-> "start", rows |-> PatternSheet(nr, nc, a, b, seed), width |-> nc,
                   metric_rows |-> mr, months_col_start |-> st, out |-> <<>>] :
                     nr \in 0..MaxGridRows, nc \in 0..MaxGridCols,
                     a \in 0..1, b \in 1..2, seed \in 0..MaxSeed,
                     mr \in MetricRowChoices, st \in 0..2}
    /\ norm = Idle /\ colres = Idle /\ rowx = Idle
    /\ aggr = Idle /\ dmoss = Idle /\ imp = Idle /\ cellx = Idle

ReadDmossSheet ==
    /\ gridx.pc = "start"
    /\ gridx' = [gridx EXCEPT !.pc = "done",
                              !.out = read_dmoss_sheet(gridx.rows, gridx.width,
                                          gridx.metric_rows, gridx.months_col_start)]
    /\ UNCHANGED <<norm, colres, rowx, aggr, dmoss, imp, cellx>>

NextGrid == ReadDmossSheet

SpecGrid == InitGrid /\ [][NextGrid]_vars

IsNum(x) == IsInt(x) \/ IsFloat(x)

Mantissa(x) == IF IsInt(x) THEN x.v ELSE x.m

Exponent(x) == IF IsInt(x) THEN 0 ELSE x.e

\* the same text, or numbers of the same value (3.0 and 3 are the same value)
SameValue(x, y) ==
    \/ x = y
    \/ /\ IsNum(x) /\ IsNum(y)
       /\ Mantissa(x) * Pow10(Exponent(y)) = Mantissa(y) * Pow10(Exponent(x))

\* the source cell [r, c] (from 0) is there and not blank
HasData(rows, width, r, c) ==
    r < Len(rows) /\ c < width /\ ~IsNull(rows[r + 1][c + 1])

\* what month k is to hold for the metric read from row r
MetricReadFromCell(value, rows, width, r, c) ==
    IF HasData(rows, width, r, c) THEN SameValue(value, rows[r + 1][c + 1])
    ELSE IsNull(value)

\* C6: exactly 12 Records, months 1..12 in order, for every grid size; metric m of
\* month k is the cell [metric_row_m, month_col_start + (k-1)], and a blank or
\* absent cell is null, never zero.
C6_TwelveMonthsFromFixedCells ==
    gridx.pc = "done" =>
        /\ Len(gridx.out) = 12
        /\ \A k \in 1..12 :
              LET c == gridx.months_col_start + (k - 1)
                  rec == gridx.out[k]
              IN  /\ rec.Month = k
                  /\ MetricReadFromCell(rec.den1, gridx.rows, gridx.width, gridx.metric_rows[1], c)
                  /\ MetricReadFromCell(rec.den2, gridx.rows, gridx.width, gridx.metric_rows[2], c)
                  /\ MetricReadFromCell(rec.den3, gridx.rows, gridx.width, gridx.metric_rows[3], c)
                  /\ MetricReadFromCell(rec.den4, gridx.rows, gridx.width, gridx.metric_rows[4], c)
                  /\ MetricReadFromCell(rec.total_test, gridx.rows, gridx.width,
                                        gridx.metric_rows[5], c)

\* a sheet with fewer rows and columns than the offsets need, whose DEN1 row holds a
\* blank cell in month 1, a reported zero in month 2 and 3.0 in month 3
C6_Witness ==
    /\ gridx.pc = "done"
    /\ Len(gridx.rows) = 3 /\ gridx.width = 5
    /\ gridx.metric_rows = <<1, 2, 3, 4, 6>>
    /\ gridx.months_col_start = 0
    /\ IsNull(gridx.rows[2][1])
    /\ IsNull(gridx.out[1].den1)
    /\ gridx.out[2].den1 = PyInt(0)
    /\ gridx.rows[2][3] = PyFloat(3, 0)
    /\ gridx.out[3].den1 = PyInt(3)
    /\ IsNull(gridx.out[6].den1)
    /\ IsNull(gridx.out[1].total_test)

(***************************************************************************)
(* Aggregator: edengue_processing.detect_den_from_cols and process         *)
(* df is its column labels and its rows, each a sequence of cells in       *)
(* column order; a date cell is [t |-> "date", month |-> m].               *)
(***************************************************************************)
PyDate(m) == [t |-> "date", month |-> m]

IsDate(x) == x.t = "date"

\* pd.to_datetime(..., errors="coerce").dt.month of one cell: NaT for a blank cell
\* and for a text that is no date
MonthOfCell(cell) == IF IsDate(cell) THEN PyInt(cell.month) ELSE Null

\* df[label]: the place of the column with this label
ColumnPos(columns, label) == CHOOSE i \in 1..Len(columns) : columns[i] = label.v

\* str(val).replace("-", "")
DropHyphens(s) == SelectSeq(s, LAMBDA c : c # "-")

\* den_token: "DEN1" .. "DEN4"
DenToken(d) == <<"D", "E", "N", DecDigits[d + 1]>>

\* detect_den_from_cols(row, cols, den_token); cols are labels of df
RECURSIVE detect_den_from_cols(_, _, _, _)
detect_den_from_cols(columns, row, cols, den_token) ==
    IF cols = <<>> THEN FALSE
    ELSE IF IsNull(row[ColumnPos(columns, Head(cols))])
         THEN detect_den_from_cols(columns, row, Tail(cols), den_token)
    ELSE IF Contains(Upper(DropHyphens(StrOf(row[ColumnPos(columns, Head(cols))]))), den_token)
         THEN TRUE
    ELSE detect_den_from_cols(columns, row, Tail(cols), den_token)

\* a slip: only the first result column is looked at
TotalTestOf_FirstColumn(columns, row, result_cols) ==
    IF result_cols # <<>> /\ ~IsNull(row[ColumnPos(columns, result_cols[1])])
    THEN 1 ELSE 0

\* df[result_cols].notna().any(axis=1).astype(int) of one row
TotalTestOf(columns, row, result_cols) ==
    IF \E k \in 1..Len(result_cols) : ~IsNull(row[ColumnPos(columns, result_cols[k])])
    THEN 1 ELSE 0

\* a slip: without a district column the district is the empty text
CaseRecord_BlankDistrict(columns, row, year, province_col, district_col, month_col, result_cols) ==
    [province |-> normalize(row[ColumnPos(columns, province_col)]),
     district |-> IF IsNull(district_col) THEN Str(<<>>)
                  ELSE normalize(row[ColumnPos(columns, district_col)]),
     year |-> PyInt(year),
     month |-> IF IsNull(month_col) THEN Null
               ELSE MonthOfCell(row[ColumnPos(columns, month_col)]),
     DEN1 |-> detect_den_from_cols(columns, row, result_cols, DenToken(1)),
     DEN2 |-> detect_den_from_cols(columns, row, result_cols, DenToken(2)),
     DEN3 |-> detect_den_from_cols(columns, row, result_cols, DenToken(3)),
     DEN4 |-> detect_den_from_cols(columns, row, result_cols, DenToken(4)),
     TOTAL_TEST |-> TotalTestOf(columns, row, result_cols)]

\* the columns process adds to one row of df
CaseRecord(columns, row, year, province_col, district_col, month_col, result_cols) ==
    [province |-> normalize(row[ColumnPos(columns, province_col)]),
     district |-> IF IsNull(district_col) THEN Null
                  ELSE normalize(row[ColumnPos(columns, district_col)]),
     year |-> PyInt(year),
     month |-> IF IsNull(month_col) THEN Null
               ELSE MonthOfCell(row[ColumnPos(columns, month_col)]),
     DEN1 |-> detect_den_from_cols(columns, row, result_cols, DenToken(1)),
     DEN2 |-> detect_den_from_cols(columns, row, result_cols, DenToken(2)),
     DEN3 |-> detect_den_from_cols(columns, row, result_cols, DenToken(3)),
     DEN4 |-> detect_den_from_cols(columns, row, result_cols, DenToken(4)),
     TOTAL_TEST |-> TotalTestOf(columns, row, result_cols)]

\* the result columns of the tokens, in order; Null where a token is not resolved
ResolveAll(columns, tokens) ==
    [k \in 1..Len(tokens) |-> col_by_index_or_name(columns, tokens[k])]

\* group_cols: district only when some row has one
GroupCols(records) ==
    IF \E i \in 1..Len(records) : ~IsNull(records[i].district)
    THEN <<"province", "district", "year", "month">>
    ELSE <<"province", "year", "month">>

KeyOf(rec, group_cols) == [k \in 1..Len(group_cols) |-> rec[group_cols[k]]]

\* a slip: groupby without dropna=False leaves out every key with a null in it
GroupKeys_DropNa(records, group_cols) ==
    {key \in {KeyOf(records[i], group_cols) : i \in 1..Len(records)} :
        \A k \in 1..Len(key) : ~IsNull(key[k])}

\* df.groupby(group_cols, dropna=False): the keys of the groups
GroupKeys(records, group_cols) ==
    {KeyOf(records[i], group_cols) : i \in 1..Len(records)}

\* the number sum() adds for a row: a flag counts 0 or 1
FieldNumber(rec, field) ==
    IF field = "TOTAL_TEST" THEN rec[field] ELSE IF rec[field] THEN 1 ELSE 0

\* a slip: ("DENk", "count") instead of ("DENk", "sum")
RECURSIVE GroupSum_Count(_, _, _, _)
GroupSum_Count(records, group_cols, key, field) ==
    IF records = <<>> THEN 0
    ELSE (IF KeyOf(Head(records), group_cols) = key THEN 1 ELSE 0)
         + GroupSum_Count(Tail(records), group_cols, key, field)

\* (field, "sum") over the rows of one group
RECURSIVE GroupSum(_, _, _, _)
GroupSum(records, group_cols, key, field) ==
    IF records = <<>> THEN 0
    ELSE (IF KeyOf(Head(records), group_cols) = key
          THEN FieldNumber(Head(records), field) ELSE 0)
         + GroupSum(Tail(records), group_cols, key, field)

\* the characters in the order of their code points, as sorted() compares text
CodePointOrder ==
    <<"tab", "sp", ",", "-", ".", "0", "1", "2", "3", "4", "5", "6", "7", "8", "9",
      "A", "B", "C", "D", "E", "G", "H", "I", "K", "N", "O", "Q", "S", "T", "U", "V",
      "W", "X", "Y",
      "a", "b", "c", "d", "e", "g", "h", "i", "n", "o", "q", "s", "t", "u", "v", "x",
      "y", "z",
      "nbsp", "sup2", "A_grave", "A_acute", "U_acute", "a_grave", "a_acute", "u_acute",
      "Dstroke", "dstroke", "O_horn", "o_horn",
      "grave", "acute", "circ", "tilde", "breve", "hook", "horn", "dotbelow",
      "A_circdot", "a_circdot", "A_breve_tilde", "a_breve_tilde", "E_circdot",
      "e_circdot", "I_hook", "i_hook", "I_dotbelow", "i_dotbelow", "O_hornhook",
      "o_hornhook">>

RECURSIVE StrLess(_, _)
StrLess(s, u) ==
    IF u = <<>> THEN FALSE
    ELSE IF s = <<>> THEN TRUE
    ELSE IF Head(s) = Head(u) THEN StrLess(Tail(s), Tail(u))
    ELSE IndexOf(CodePointOrder, Head(s)) < IndexOf(CodePointOrder, Head(u))

\* the order of the values of one key column; nulls come last
ValueLess(x, y) ==
    IF IsNull(x) THEN FALSE
    ELSE IF IsNull(y) THEN TRUE
    ELSE IF IsStr(x) THEN StrLess(x.v, y.v)
    ELSE x.v < y.v

RECURSIVE KeyLess(_, _)
KeyLess(k1, k2) ==
    IF k1 = <<>> THEN FALSE
    ELSE IF Head(k1) = Head(k2) THEN KeyLess(Tail(k1), Tail(k2))
    ELSE ValueLess(Head(k1), Head(k2))

\* groupby sorts the group keys
RECURSIVE SortKeys(_)
SortKeys(keys) ==
    IF keys = {} THEN <<>>
    ELSE LET least == CHOOSE k \in keys : \A o \in keys \ {k} : KeyLess(k, o)
         IN  <<least>> \o SortKeys(keys \ {least})

\* one row of agg
AggRow(records, group_cols, key) ==
    [key |-> key,
     No_DEN1 |-> GroupSum(records, group_cols, key, "DEN1"),
     No_DEN2 |-> GroupSum(records, group_cols, key, "DEN2"),
     No_DEN3 |-> GroupSum(records, group_cols, key, "DEN3"),
     No_DEN4 |-> GroupSum(records, group_cols, key, "DEN4"),
     Total_test |-> GroupSum(records, group_cols, key, "TOTAL_TEST")]

\* df.groupby(group_cols, dropna=False).agg(...).reset_index()
Aggregate(records) ==
    LET group_cols == GroupCols(records)
        keys == SortKeys(GroupKeys(records, group_cols))
    IN  [group_cols |-> group_cols,
         rows |-> [j \in 1..Len(keys) |-> AggRow(records, group_cols, keys[j])]]

(***************************************************************************)
(* Aggregator: one source table is processed                               *)
(***************************************************************************)
MaxRecs == 2

\* df.columns: "TINH", "HUYEN", "NGAY", "KQ1", "KQ2"
CaseColumns ==
    <<<<"T", "I", "N", "H">>, <<"H", "U", "Y", "E", "N">>, <<"N", "G", "A", "Y">>,
      <<"K", "Q", "1">>, <<"K", "Q", "2">>>>

ProvHa == Str(<<"H", "a_grave">>)

ProvHaPlain == Str(<<"h", "a", "sp">>)

ProvDa == Str(<<"Dstroke", "a_grave">>)

DistQ1 == Str(<<"q", "1">>)

DistQ2 == Str(<<"Q", "2">>)

\* result cells: "DEN-1", "den2", "DEN1,DEN2", "x"
ResDen1 == Str(<<"D", "E", "N", "-", "1">>)

ResDen2 == Str(<<"d", "e", "n", "2">>)

ResDen12 == Str(<<"D", "E", "N", "1", ",", "D", "E", "N", "2">>)

ResOther == Str(<<"x">>)

\* rows of the source table: province, district, onset date, two result cells
CaseRows ==
    { <<ProvHa, DistQ1, PyDate(5), ResDen1, Null>>,
      <<ProvHaPlain, DistQ1, PyDate(5), ResOther, ResDen2>>,
      <<ProvHa, Null, PyDate(5), Null, Null>>,
      <<ProvHa, Null, PyDate(5), ResDen1, Null>>,
      <<Null, DistQ1, PyDate(6), ResDen2, ResDen1>>,
      <<ProvHa, DistQ1, Null, ResDen12, Null>>,
      <<ProvDa, Null, Str(<<"x">>), Null, ResOther>>,
      <<ProvHa, DistQ2, PyDate(5), Null, ResDen2>> }

ProvinceTokens == {Str(<<"0">>), Str(<<"t", "i", "n", "h">>), Str(<<"z", "z">>)}

DistrictTokens == {Null, Str(<<"1">>)}

MonthTokens == {Null, Str(<<"2">>)}

ResultTokenLists ==
    { <<>>, <<Str(<<"3">>)>>, <<Str(<<"K", "Q">>), Str(<<"4">>)>>, <<Str(<<"8">>)>> }

InitAgg ==
    /\ aggr \in {[pc |-> "start", columns |-> CaseColumns, rows |-> rs, year |-> 2021,
                  province_token |-> pt, district_token |-> dt, month_token |-> mt,
                  result_tokens |-> rt, records |-> <<>>,
                  out |-> [group_cols |-> <<>>, rows |-> <<>>]] :
                    rs \in BoundedSeqs(CaseRows, MaxRecs) \ {<<>>},
                    pt \in ProvinceTokens, dt \in DistrictTokens, mt \in MonthTokens,
                    rt \in ResultTokenLists}
    /\ norm = Idle /\ colres = Idle /\ rowx = Idle
    /\ gridx = Idle /\ dmoss = Idle /\ imp = Idle /\ cellx = Idle

ProvinceCol == col_by_index_or_name(aggr.columns, aggr.province_token)

DistrictCol ==
    IF IsNull(aggr.district_token) THEN Null
    ELSE col_by_index_or_name(aggr.columns, aggr.district_token)

MonthCol ==
    IF IsNull(aggr.month_token) THEN Null
    ELSE col_by_index_or_name(aggr.columns, aggr.month_token)

ResultCols == ResolveAll(aggr.columns, aggr.result_tokens)

\* raise ValueError: a result token or the province token names no column
ProcessFails ==
    /\ aggr.pc = "start"
    /\ \/ \E k \in 1..Len(ResultCols) : IsNull(ResultCols[k])
       \/ IsNull(ProvinceCol)
    /\ aggr' = [aggr EXCEPT !.pc = "error"]
    /\ UNCHANGED <<norm, colres, rowx, gridx, dmoss, imp, cellx>>

\* process(): the fields of every row, then the grouped sums
Process ==
    /\ aggr.pc = "start"
    /\ \A k \in 1..Len(ResultCols) : ~IsNull(ResultCols[k])
    /\ ~IsNull(ProvinceCol)
    /\ LET records == [i \in 1..Len(aggr.rows) |->
                          CaseRecord(aggr.columns, aggr.rows[i], aggr.year, ProvinceCol,
                                     DistrictCol, MonthCol, ResultCols)]
       IN  aggr' = [aggr EXCEPT !.pc = "done", !.records = records,
                                !.out = Aggregate(records)]
    /\ UNCHANGED <<norm, colres, rowx, gridx, dmoss, imp, cellx>>

NextAgg == Process \/ ProcessFails

SpecAgg == InitAgg /\ [][NextAgg]_vars

\* the input Records of the grouped row with this key
Members(records, group_cols, key) ==
    {i \in 1..Len(records) : KeyOf(records[i], group_cols) = key}

\* C7: one output row per distinct grouping key of the input; in each row No.DENk is
\* the number of the group's Records whose DENk flag is true and Total test is the
\* sum of the group's total-test indicators.
C7_OneRowPerKeyWithFlagCounts ==
    aggr.pc = "done" =>
        LET recs == aggr.records
            gc == aggr.out.group_cols
            rows == aggr.out.rows
        IN  /\ \A j1, j2 \in 1..Len(rows) : rows[j1].key = rows[j2].key => j1 = j2
            /\ {rows[j].key : j \in 1..Len(rows)}
                  = {KeyOf(recs[i], gc) : i \in 1..Len(recs)}
            /\ \A j \in 1..Len(rows) :
                  LET M == Members(recs, gc, rows[j].key)
                  IN  /\ rows[j].No_DEN1 = Cardinality({i \in M : recs[i].DEN1})
                      /\ rows[j].No_DEN2 = Cardinality({i \in M : recs[i].DEN2})
                      /\ rows[j].No_DEN3 = Cardinality({i \in M : recs[i].DEN3})
                      /\ rows[j].No_DEN4 = Cardinality({i \in M : recs[i].DEN4})
                      /\ rows[j].Total_test
                            = Cardinality({i \in M : recs[i].TOTAL_TEST = 1})

\* the example: two Records of province "HA", no district, 2021, month 5, with DEN1
\* flags true and false, give one row with No.DEN1 = 1
C7_Witness ==
    /\ aggr.pc = "done"
    /\ Len(aggr.records) = 2
    /\ \A i \in 1..2 :
          /\ aggr.records[i].province = Str(<<"H", "A">>)
          /\ IsNull(aggr.records[i].district)
          /\ aggr.records[i].month = PyInt(5)
    /\ aggr.records[1].DEN1 /\ ~aggr.records[2].DEN1
    /\ aggr.out.group_cols = <<"province", "year", "month">>
    /\ Len(aggr.out.rows) = 1
    /\ aggr.out.rows[1].No_DEN1 = 1

RECURSIVE SumOfGroupSizes(_, _, _)
SumOfGroupSizes(records, group_cols, rows) ==
    IF rows = <<>> THEN 0
    ELSE Cardinality(Members(records, group_cols, Head(rows).key))
         + SumOfGroupSizes(records, group_cols, Tail(rows))

\* C8: district is in the grouping key iff some input Record has a non-null district;
\* Records with a null month, district or province are kept in groups of their own:
\* every Record lies in exactly one output row, and the group sizes sum to the number
\* of Records.
C8_NullKeysKept ==
    aggr.pc = "done" =>
        LET recs == aggr.records
            gc == aggr.out.group_cols
            rows == aggr.out.rows
        IN  /\ In(gc, "district") <=> \E i \in 1..Len(recs) : ~IsNull(recs[i].district)
            /\ In(gc, "province") /\ In(gc, "year") /\ In(gc, "month")
            /\ \A i \in 1..Len(recs) :
                  Cardinality({j \in 1..Len(rows) : rows[j].key = KeyOf(recs[i], gc)}) = 1
            /\ SumOfGroupSizes(recs, gc, rows) = Len(recs)

\* a Record without province and a Record without month, both with a district: two
\* groups, each with a null in its key
C8_Witness ==
    /\ aggr.pc = "done"
    /\ Len(aggr.records) = 2
    /\ IsNull(aggr.records[1].province) /\ ~IsNull(aggr.records[1].district)
    /\ IsNull(aggr.records[2].month) /\ ~IsNull(aggr.records[2].province)
    /\ aggr.out.group_cols = <<"province", "district", "year", "month">>
    /\ Len(aggr.out.rows) = 2
    /\ IsNull(aggr.out.rows[2].key[1])
    /\ IsNull(aggr.out.rows[1].key[4])

(***************************************************************************)
(* Tables and the Merger: pd.concat                                        *)
(* A table is its column labels, in order, and its rows, each a function   *)
(* from the labels to values.                                              *)
(***************************************************************************)
\* the columns of the fixed-offset path
DmossColumns ==
    <<"province", "district", "year", "Month",
      "No. DEN1", "No. DEN2", "No. DEN3", "No. DEN4", "Total test">>

\* the columns of the heuristic path
EdengueColumns ==
    <<"province", "district", "year", "month",
      "No.DEN1", "No.DEN2", "No.DEN3", "No.DEN4", "Total test">>

\* pd.DataFrame(columns=cols)
EmptyTable(cols) == [columns |-> cols, rows |-> <<>>]

ColSet(table) == {table.columns[i] : i \in 1..Len(table.columns)}

\* columns in order of first appearance (sort=False)
UnionColumns(a, b) ==
    a.columns \o SelectSeq(b.columns, LAMBDA c : c \notin ColSet(a))

\* a row over the columns cols, NaN where the row's table has no such column
Reindex(row, cols) ==
    [c \in {cols[i] : i \in 1..Len(cols)} |-> IF c \in DOMAIN row THEN row[c] ELSE Null]

ReindexAll(rows, cols) == [i \in 1..Len(rows) |-> Reindex(rows[i], cols)]

\* the rows without those equal to an earlier row, in order
DropDuplicates(rows) ==
    LET keep == {i \in 1..Len(rows) : \A j \in 1..(i - 1) : rows[j] # rows[i]}
    IN  [k \in 1..Cardinality(keep) |->
            rows[CHOOSE i \in keep : Cardinality({j \in keep : j <= i}) = k]]

\* a slip: rows already present are not appended again
Concat_DropDuplicates(a, b) ==
    [columns |-> UnionColumns(a, b),
     rows |-> DropDuplicates(ReindexAll(a.rows, UnionColumns(a, b))
                             \o ReindexAll(b.rows, UnionColumns(a, b)))]

\* pd.concat([a, b], ignore_index=True, sort=False)
Concat(a, b) ==
    [columns |-> UnionColumns(a, b),
     rows |-> ReindexAll(a.rows, UnionColumns(a, b))
              \o ReindexAll(b.rows, UnionColumns(a, b))]

\* pd.concat(appended, ignore_index=True) of a non-empty list
RECURSIVE ConcatAll(_)
ConcatAll(tables) ==
    IF Len(tables) = 1 THEN tables[1]
    ELSE Concat(ConcatAll(SubSeq(tables, 1, Len(tables) - 1)), tables[Len(tables)])

(***************************************************************************)
(* Fixed-offset batch: fill_edengue_from_dmoss.process_dmoss_file and main *)
(***************************************************************************)
\* re.search(r'(20\d{2})', name): places where "20" and two digits start
YearPlaces(name) ==
    {i \in 1..(Len(name) - 3) :
        /\ name[i] = "2" /\ name[i + 1] = "0"
        /\ IsDecDigit(name[i + 2]) /\ IsDecDigit(name[i + 3])}

\* infer_year_from_filename(name)
infer_year_from_filename(name) ==
    IF YearPlaces(name) = {} THEN Null
    ELSE PyInt(IntOf(SubSeq(name, First(YearPlaces(name)), First(YearPlaces(name)) + 3)))

\* the nine-column row of one month of one sheet
DmossRow(province, year, m) ==
    [c \in {DmossColumns[i] : i \in 1..Len(DmossColumns)} |->
        CASE c = "province" -> province
          [] c = "district" -> Str(<<>>)
          [] c = "year" -> year
          [] c = "Month" -> PyInt(m.Month)
          [] c = "No. DEN1" -> m.den1
          [] c = "No. DEN2" -> m.den2
          [] c = "No. DEN3" -> m.den3
          [] c = "No. DEN4" -> m.den4
          [] c = "Total test" -> m.total_test]

\* the rows of one sheet that pd.read_excel has read
DmossSheetRows(sheet, year, metric_rows, months_col_start) ==
    LET monthly == read_dmoss_sheet(sheet.rows, sheet.width, metric_rows, months_col_start)
    IN  [k \in 1..Len(monthly) |-> DmossRow(DmossProvince(sheet.name), year, monthly[k])]

\* for sheet_name in xls.sheet_names: a sheet that cannot be read is skipped
RECURSIVE DmossRowsOf(_, _, _, _)
DmossRowsOf(sheets, year, metric_rows, months_col_start) ==
    IF sheets = <<>> THEN <<>>
    ELSE (IF Head(sheets).readable
          THEN DmossSheetRows(Head(sheets), year, metric_rows, months_col_start)
          ELSE <<>>)
         \o DmossRowsOf(Tail(sheets), year, metric_rows, months_col_start)

\* process_dmoss_file(dmoss_path, year, ...) of a workbook pd.ExcelFile has opened
process_dmoss_file(file, year, metric_rows, months_col_start) ==
    [columns |-> DmossColumns,
     rows |-> DmossRowsOf(file.sheets, year, metric_rows, months_col_start)]

\* load_base_edengue(edengue_path): the file's table when a path is given and the
\* file exists, else an empty table with the nine columns
load_base_edengue(edengue) ==
    IF edengue.given /\ edengue.exists THEN edengue.table ELSE EmptyTable(DmossColumns)

\* final: the base and the appended tables, or the base alone
FinalTable(ed_base, appended) ==
    IF appended # <<>> THEN Concat(ed_base, ConcatAll(appended)) ELSE ed_base

MaxFiles == 2

\* --d1-row .. --total-row and --months-col-start as they default
DefaultMetricRows == <<1, 2, 3, 4, 6>>

\* sheets of DMOSS workbooks; the name is the province
SheetHaNoi ==
    [name |-> Str(<<"H", "a_grave", "sp", "N", "o", "i">>), readable |-> TRUE,
     rows |-> PatternSheet(7, 14, 1, 1, 0), width |-> 14]

SheetDaNang ==
    [name |-> Str(DaNang), readable |-> TRUE,
     rows |-> PatternSheet(3, 5, 0, 1, 4), width |-> 5]

SheetBroken ==
    [name |-> Str(<<"H", "u", "e">>), readable |-> FALSE, rows |-> <<>>, width |-> 0]

\* "D_2015": two good sheets around a broken one
File2015 ==
    [name |-> <<"D", "_", "2", "0", "1", "5">>, exists |-> TRUE, opens |-> TRUE,
     sheets |-> <<SheetHaNoi, SheetBroken, SheetDaNang>>]

\* "D_x": no year in the name
FileNoYear ==
    [name |-> <<"D", "_", "x">>, exists |-> TRUE, opens |-> TRUE,
     sheets |-> <<SheetDaNang>>]

\* "D_2016": a file that is there and is no workbook
FileCorrupt ==
    [name |-> <<"D", "_", "2", "0", "1", "6">>, exists |-> TRUE, opens |-> FALSE,
     sheets |-> <<>>]

FileMissing ==
    [name |-> <<"D", "_", "2", "0", "1", "7">>, exists |-> FALSE, opens |-> FALSE,
     sheets |-> <<>>]

DmossFiles == {File2015, FileNoYear, FileCorrupt, FileMissing}

\* a base written by the heuristic importer: other labels for month and counts
HeuristicBase ==
    [columns |-> EdengueColumns,
     rows |-> << [c \in {EdengueColumns[i] : i \in 1..Len(EdengueColumns)} |->
                    CASE c = "province" -> ProvAnGiang
                      [] c = "district" -> Str(<<"Q", "1">>)
                      [] c = "year" -> PyInt(2025)
                      [] c = "month" -> PyInt(7)
                      [] OTHER -> PyInt(1)] >>]

\* a base that is the result of an earlier run over File2015
EarlierRunBase ==
    process_dmoss_file(File2015, infer_year_from_filename(File2015.name),
                       DefaultMetricRows, 1)

EdengueBases ==
    { [given |-> FALSE, exists |-> FALSE, table |-> EmptyTable(DmossColumns)],
      [given |-> TRUE, exists |-> FALSE, table |-> EmptyTable(DmossColumns)],
      [given |-> TRUE, exists |-> TRUE, table |-> HeuristicBase],
      [given |-> TRUE, exists |-> TRUE, table |-> EarlierRunBase] }

NoTable == EmptyTable(<<>>)

InitDmoss ==
    /\ dmoss \in {[pc |-> "start", dmoss_files |-> fs, edengue |-> e,
                   ed_base |-> NoTable, next |-> 1, appended |-> <<>>,
                   written |-> FALSE, out_file |-> NoTable] :
                     fs \in BoundedSeqs(DmossFiles, MaxFiles), e \in EdengueBases}
    /\ norm = Idle /\ colres = Idle /\ rowx = Idle
    /\ gridx = Idle /\ aggr = Idle /\ imp = Idle /\ cellx = Idle

DmossOthers == <<norm, colres, rowx, gridx, aggr, imp, cellx>>

\* ed_base = load_base_edengue(...)
LoadBase ==
    /\ dmoss.pc = "start"
    /\ dmoss' = [dmoss EXCEPT !.pc = "files", !.ed_base = load_base_edengue(dmoss.edengue)]
    /\ UNCHANGED DmossOthers

\* if not p.exists(): print(...); continue
SkipMissingFile ==
    /\ dmoss.pc = "files"
    /\ dmoss.next <= Len(dmoss.dmoss_files)
    /\ ~dmoss.dmoss_files[dmoss.next].exists
    /\ dmoss' = [dmoss EXCEPT !.next = @ + 1]
    /\ UNCHANGED DmossOthers

\* df_year = process_dmoss_file(p, year=year, ...); appended.append(df_year)
ProcessDmossFile ==
    /\ dmoss.pc = "files"
    /\ dmoss.next <= Len(dmoss.dmoss_files)
    /\ LET f == dmoss.dmoss_files[dmoss.next]
       IN  /\ f.exists /\ f.opens
           /\ dmoss' = [dmoss EXCEPT
                  !.next = @ + 1,
                  !.appended = Append(@, process_dmoss_file(f,
                                   infer_year_from_filename(f.name), DefaultMetricRows, 1))]
    /\ UNCHANGED DmossOthers

\* xls = pd.ExcelFile(dmoss_path) raises: nothing catches it, main ends there
OpenFileFails ==
    /\ dmoss.pc = "files"
    /\ dmoss.next <= Len(dmoss.dmoss_files)
    /\ LET f == dmoss.dmoss_files[dmoss.next]
       IN  f.exists /\ ~f.opens
    /\ dmoss' = [dmoss EXCEPT !.pc = "crashed"]
    /\ UNCHANGED DmossOthers

\* the concatenation after the loop and final.to_excel(out_path)
SaveMerged ==
    /\ dmoss.pc = "files"
    /\ dmoss.next > Len(dmoss.dmoss_files)
    /\ dmoss' = [dmoss EXCEPT !.pc = "done", !.written = TRUE,
                              !.out_file = FinalTable(dmoss.ed_base, dmoss.appended)]
    /\ UNCHANGED DmossOthers

NextDmoss ==
    \/ LoadBase
    \/ SkipMissingFile
    \/ ProcessDmossFile
    \/ OpenFileFails
    \/ SaveMerged

SpecDmoss == InitDmoss /\ [][NextDmoss]_vars

\* the rows of all appended tables, in order
RECURSIVE RowsOfAll(_)
RowsOfAll(tables) ==
    IF tables = <<>> THEN <<>> ELSE Head(tables).rows \o RowsOfAll(Tail(tables))

\* table `out` is the outer union of the rows `first` over columns fc followed by the
\* rows `second` over columns sc: nothing dropped, nothing merged, missing cells null
IsOuterUnion(out, first, fc, second, sc) ==
    /\ ColSet(out) = fc \cup sc
    /\ Len(out.rows) = Len(first) + Len(second)
    /\ \A i \in 1..Len(first) : \A c \in fc \cup sc :
          out.rows[i][c] = IF c \in fc THEN first[i][c] ELSE Null
    /\ \A i \in 1..Len(second) : \A c \in fc \cup sc :
          out.rows[Len(first) + i][c] = IF c \in sc THEN second[i][c] ELSE Null

\* C9: merge(base, new) holds all base rows in order, then all new rows in order,
\* without deduplication, over the union of both column sets, with a missing-value
\* marker wherever the row's own table lacked the column.
C9_MergeIsOuterUnionConcat ==
    (dmoss.pc = "done" /\ dmoss.appended # <<>>)
        => IsOuterUnion(dmoss.out_file,
                        dmoss.ed_base.rows, ColSet(dmoss.ed_base),
                        RowsOfAll(dmoss.appended),
                        {DmossColumns[i] : i \in 1..Len(DmossColumns)})

\* a base with the labels of the heuristic path merged with the same workbook twice:
\* 1 + 24 + 24 rows, the second pass repeating the rows of the first, "Month" null
\* in the base row and "month" null in the new rows
C9_Witness ==
    /\ dmoss.pc = "done"
    /\ dmoss.ed_base = HeuristicBase
    /\ dmoss.dmoss_files = <<File2015, File2015>>
    /\ Len(dmoss.out_file.rows) = 49
    /\ dmoss.out_file.rows[2] = dmoss.out_file.rows[26]
    /\ IsNull(dmoss.out_file.rows[1]["Month"])
    /\ dmoss.out_file.rows[1]["month"] = PyInt(7)
    /\ IsNull(dmoss.out_file.rows[2]["month"])
    /\ dmoss.out_file.rows[2]["Month"] = PyInt(1)
    /\ dmoss.out_file.rows[2]["province"] = Str(<<"H", "A", "sp", "N", "O", "I">>)

(***************************************************************************)
(* Heuristic importer: edengue_import.process_file_to_edengue              *)
(***************************************************************************)
DigitPlaces(name) == {i \in 1..Len(name) : IsDecDigit(name[i])}

RECURSIVE RunEnd(_, _)
RunEnd(name, i) ==
    IF i < Len(name) /\ IsDecDigit(name[i + 1]) THEN RunEnd(name, i + 1) ELSE i

\* m = re.search(r'(\d+)', str(sheet)); month_val = int(m.group(1))
SheetMonth(name) ==
    IF DigitPlaces(name) = {} THEN Null
    ELSE PyInt(IntOf(SubSeq(name, First(DigitPlaces(name)),
                            RunEnd(name, First(DigitPlaces(name))))))

\* if not m: continue / if month_val < month_min or month_val > month_max: continue
SheetInRange(name, month_min, month_max) ==
    /\ ~IsNull(SheetMonth(name))
    /\ SheetMonth(name).v >= month_min
    /\ SheetMonth(name).v <= month_max

\* one row of pd.DataFrame(all_rows)[cols]
EdengueRow(rec) ==
    [c \in {EdengueColumns[i] : i \in 1..Len(EdengueColumns)} |->
        CASE c = "province" -> rec.province
          [] c = "district" -> rec.district
          [] c = "year" -> PyInt(rec.year)
          [] c = "month" -> PyInt(rec.month)
          [] c = "No.DEN1" -> rec.den1
          [] c = "No.DEN2" -> rec.den2
          [] c = "No.DEN3" -> rec.den3
          [] c = "No.DEN4" -> rec.den4
          [] c = "Total test" -> rec.total_test]

\* out_df = pd.DataFrame(all_rows)[cols]
OutDf(all_rows) ==
    [columns |-> EdengueColumns,
     rows |-> [i \in 1..Len(all_rows) |-> EdengueRow(all_rows[i])]]

\* what is written to output_path when rows were found
ImportedTable(all_rows, append_to_existing, existing) ==
    IF append_to_existing /\ existing.exists
    THEN Concat(existing.table, OutDf(all_rows))
    ELSE OutDf(all_rows)

MaxSheets == 2

\* "T7": the example grid, one marker row
ImpSheetT7 ==
    [name |-> <<"T", "7">>, readable |-> TRUE, rows |-> ExampleRows, width |-> 3]

\* "Thang 10": a label row and two marker rows, the second with two marker cells
ImpSheetThang10 ==
    [name |-> <<"T", "h", "a", "n", "g", "sp", "1", "0">>, readable |-> TRUE,
     rows |-> <<<<LabelQuan1, Null, PyInt(3)>>,
                <<Str(<<"T", "C">>), Str(<<"1", "2">>), Str(<<"1", ",", "5">>)>>,
                <<Str(<<"t", "c">>), Str(<<"sp", "t", "c", "sp">>), PyFloat(25, 1)>>>>,
     width |-> 3]

\* "T9": readable, no marker row
ImpSheetT9 ==
    [name |-> <<"T", "9">>, readable |-> TRUE,
     rows |-> <<<<LabelQuan1, Null, PyInt(3)>>>>, width |-> 3]

\* "T8": in every month range used here, and pd.read_excel raises on it
ImpSheetT8Broken ==
    [name |-> <<"T", "8">>, readable |-> FALSE, rows |-> <<>>, width |-> 0]

\* "T13": no month
ImpSheetT13 ==
    [name |-> <<"T", "1", "3">>, readable |-> TRUE,
     rows |-> <<<<Str(<<"T", "C">>), Null, Null>>>>, width |-> 3]

\* "Note": no digits in the name, never read
ImpSheetNote ==
    [name |-> <<"N", "o", "t", "e">>, readable |-> FALSE, rows |-> <<>>, width |-> 0]

ImpSheets ==
    {ImpSheetT7, ImpSheetThang10, ImpSheetT9, ImpSheetT8Broken, ImpSheetT13, ImpSheetNote}

\* the caller's arguments: those of the example usage, and the defaults with a
\* narrow column map and the province taken from the file name. `year` is the year
\* of the workbook the caller imports: process_file_to_edengue and
\* extract_tc_rows_from_sheet have no parameter that takes it.
ImpConfigs ==
    { [prov_name |-> Str(<<"sp", "A", "n", "sp", "G", "i", "a", "n", "g">>),
       stem |-> Str(<<"x">>), month_min |-> 7, month_max |-> 10,
       col_map |-> <<3, 4, 5, 6, 7>>, year |-> 2025],
      [prov_name |-> Null,
       stem |-> Str(<<"a", "n", "sp", "g", "i", "a", "n", "g">>),
       month_min |-> 1, month_max |-> 12, col_map |-> <<1, 2, 1, 2, 2>>,
       year |-> 2024] }

\* the file at output_path before the call
ExistingOutputs ==
    { [exists |-> FALSE, table |-> NoTable],
      [exists |-> TRUE, table |-> HeuristicBase] }

InitImp ==
    /\ imp \in {[pc |-> "start", opens |-> o, sheets |-> ss, cfg |-> cfg,
                 append_to_existing |-> a, existing |-> e, prov_name |-> Null,
                 next |-> 1, all_rows |-> <<>>, written |-> FALSE, out_file |-> e] :
                   o \in BOOLEAN, ss \in BoundedSeqs(ImpSheets, MaxSheets),
                   cfg \in ImpConfigs, a \in BOOLEAN, e \in ExistingOutputs}
    /\ norm = Idle /\ colres = Idle /\ rowx = Idle
    /\ gridx = Idle /\ aggr = Idle /\ dmoss = Idle /\ cellx = Idle

ImpOthers == <<norm, colres, rowx, gridx, aggr, dmoss, cellx>>

\* prov_name is settled and xls = pd.ExcelFile(input_path) opens the workbook
OpenWorkbook ==
    /\ imp.pc = "start"
    /\ imp.opens
    /\ imp' = [imp EXCEPT !.pc = "sheets",
                          !.prov_name = ProvName(imp.cfg.prov_name, imp.cfg.stem)]
    /\ UNCHANGED ImpOthers

\* pd.ExcelFile raises: raise RuntimeError(...)
OpenWorkbookFails ==
    /\ imp.pc = "start"
    /\ ~imp.opens
    /\ imp' = [imp EXCEPT !.pc = "cannot_open"]
    /\ UNCHANGED ImpOthers

\* continue: no digits in the sheet name, or a month outside the range
SkipSheet ==
    /\ imp.pc = "sheets"
    /\ imp.next <= Len(imp.sheets)
    /\ ~SheetInRange(imp.sheets[imp.next].name, imp.cfg.month_min, imp.cfg.month_max)
    /\ imp' = [imp EXCEPT !.next = @ + 1]
    /\ UNCHANGED ImpOthers

\* df = pd.read_excel(...); rows = extract_tc_rows_from_sheet(...); all_rows.extend(rows)
ReadSheet ==
    /\ imp.pc = "sheets"
    /\ imp.next <= Len(imp.sheets)
    /\ LET sh == imp.sheets[imp.next]
       IN  /\ SheetInRange(sh.name, imp.cfg.month_min, imp.cfg.month_max)
           /\ sh.readable
           /\ imp' = [imp EXCEPT
                  !.next = @ + 1,
                  !.all_rows = @ \o extract_tc_rows_from_sheet(sh.rows, sh.width,
                                        SheetMonth(sh.name).v, imp.prov_name,
                                        imp.cfg.col_map)]
    /\ UNCHANGED ImpOthers

\* pd.read_excel raises inside the loop: nothing catches it, the call ends there
ReadSheetFails ==
    /\ imp.pc = "sheets"
    /\ imp.next <= Len(imp.sheets)
    /\ LET sh == imp.sheets[imp.next]
       IN  /\ SheetInRange(sh.name, imp.cfg.month_min, imp.cfg.month_max)
           /\ ~sh.readable
    /\ imp' = [imp EXCEPT !.pc = "crashed"]
    /\ UNCHANGED ImpOthers

\* if not all_rows: the header alone is written to output_path
WriteEmpty ==
    /\ imp.pc = "sheets"
    /\ imp.next > Len(imp.sheets)
    /\ imp.all_rows = <<>>
    /\ imp' = [imp EXCEPT !.pc = "done", !.written = TRUE,
                          !.out_file = [exists |-> TRUE,
                                        table |-> EmptyTable(EdengueColumns)]]
    /\ UNCHANGED ImpOthers

\* the rows are written, after the existing ones when asked and the file exists
WriteRows ==
    /\ imp.pc = "sheets"
    /\ imp.next > Len(imp.sheets)
    /\ imp.all_rows # <<>>
    /\ imp' = [imp EXCEPT !.pc = "done", !.written = TRUE,
                          !.out_file = [exists |-> TRUE,
                                        table |-> ImportedTable(imp.all_rows,
                                                      imp.append_to_existing,
                                                      imp.existing)]]
    /\ UNCHANGED ImpOthers

NextImp ==
    \/ OpenWorkbook
    \/ OpenWorkbookFails
    \/ SkipSheet
    \/ ReadSheet
    \/ ReadSheetFails
    \/ WriteEmpty
    \/ WriteRows

SpecImp == InitImp /\ [][NextImp]_vars

(***************************************************************************)
(* A batch run of either path                                              *)
(***************************************************************************)
InitBatch == InitDmoss \/ InitImp

NextBatch == NextDmoss \/ NextImp

SpecBatch == InitBatch /\ [][NextBatch]_vars

\* every row of `rows` is, cell for cell, in a row of `table`
AllRowsIn(rows, table) ==
    \A i \in 1..Len(rows) : \E j \in 1..Len(table.rows) :
        \A c \in DOMAIN rows[i] :
            c \in DOMAIN table.rows[j] /\ table.rows[j][c] = rows[i][c]

\* C10: in a batch run a sheet or a file the reader fails on is skipped; the run
\* never ends without its output because of one unreadable source, and the records
\* of every readable sheet of every remaining file are in the output -- in the
\* fixed-offset path per sheet and per workbook, in the heuristic path per sheet.
C10_UnreadableSourceIsSkipped ==
    /\ dmoss.pc # "crashed"
    /\ imp.pc # "crashed"
    /\ dmoss.pc = "done" =>
          \A k \in 1..Len(dmoss.dmoss_files) :
             LET f == dmoss.dmoss_files[k]
             IN  (f.exists /\ f.opens)
                   => \A n \in 1..Len(f.sheets) :
                        f.sheets[n].readable
                          => AllRowsIn(DmossSheetRows(f.sheets[n],
                                           infer_year_from_filename(f.name),
                                           DefaultMetricRows, 1),
                                       dmoss.out_file)
    /\ imp.pc = "done" =>
          \A n \in 1..Len(imp.sheets) :
             LET sh == imp.sheets[n]
             IN  (SheetInRange(sh.name, imp.cfg.month_min, imp.cfg.month_max)
                    /\ sh.readable)
                   => AllRowsIn(OutDf(extract_tc_rows_from_sheet(sh.rows, sh.width,
                                          SheetMonth(sh.name).v, imp.prov_name,
                                          imp.cfg.col_map)).rows,
                                imp.out_file.table)

\* a workbook that is no workbook comes first, a good one second: the run has ended
\* on the first and nothing was written
C10_BatchAborted ==
    /\ dmoss.pc = "crashed"
    /\ dmoss.dmoss_files = <<FileCorrupt, File2015>>
    /\ dmoss.next = 1
    /\ dmoss.appended = <<>>
    /\ ~dmoss.written

(***************************************************************************)
(* The Records of the three extraction paths                               *)
(***************************************************************************)
InitRecords == InitRow \/ InitDmoss \/ InitAgg

NextRecords == NextRow \/ NextDmoss \/ NextAgg

SpecRecords == InitRecords /\ [][NextRecords]_vars

\* the heuristic path has extracted: every district is a text
RowDistrictsAreText ==
    rowx.pc = "done" => \A i \in 1..Len(rowx.out) : IsStr(rowx.out[i].district)

\* the fixed-offset path: every district of every appended row is a text
DmossDistrictsAreText ==
    dmoss.pc \in {"files", "done"} =>
        \A k \in 1..Len(dmoss.appended) : \A i \in 1..Len(dmoss.appended[k].rows) :
            IsStr(dmoss.appended[k].rows[i]["district"])

\* C11: once extraction completes, the district of every Record of every extraction
\* path (heuristic, fixed-offset, per-case) is never null or absent: it is a
\* normalized label, the empty text or "UNKNOWN".
C11_DistrictNeverNull ==
    /\ RowDistrictsAreText
    /\ DmossDistrictsAreText
    /\ aggr.pc = "done" =>
          /\ \A i \in 1..Len(aggr.records) : IsStr(aggr.records[i].district)
          /\ In(aggr.out.group_cols, "district")

\* C11 as the code has it: the district is a text in the heuristic and the
\* fixed-offset path; in the per-case path it is null exactly for a Record whose
\* district cell is blank or when no district column is configured, and the grouped
\* output has a district column exactly when some Record has a district.
C11_DistrictNullOnlyPerCase ==
    /\ RowDistrictsAreText
    /\ DmossDistrictsAreText
    /\ aggr.pc = "done" =>
          /\ \A i \in 1..Len(aggr.records) :
                LET blank == \/ IsNull(DistrictCol)
                             \/ IsNull(aggr.rows[i][ColumnPos(aggr.columns, DistrictCol)])
                IN  IF blank THEN IsNull(aggr.records[i].district)
                    ELSE IsStr(aggr.records[i].district)
          /\ In(aggr.out.group_cols, "district")
                <=> \E i \in 1..Len(aggr.records) : IsStr(aggr.records[i].district)

\* no district column is configured: the Records have a null district and the
\* grouped output has no district column
C11_Witness ==
    /\ aggr.pc = "done"
    /\ IsNull(aggr.district_token)
    /\ Len(aggr.records) = 2
    /\ IsNull(aggr.records[1].district)
    /\ IsNull(aggr.records[2].district)
    /\ aggr.out.group_cols = <<"province", "year", "month">>

\* C12: when process_file_to_edengue is called with append_to_existing and the
\* output file exists, the output after the call holds every existing row, in order,
\* followed by the newly extracted rows -- also when no rows are extracted, and then
\* the existing rows are left as they were.
C12_AppendKeepsExistingRows ==
    (imp.pc = "done" /\ imp.append_to_existing /\ imp.existing.exists) =>
        LET old == imp.existing.table.rows
            new == OutDf(imp.all_rows).rows
            out == imp.out_file.table.rows
        IN  /\ Len(out) = Len(old) + Len(new)
            /\ \A i \in 1..Len(old) : \A c \in DOMAIN old[i] : out[i][c] = old[i][c]
            /\ \A i \in 1..Len(new) : \A c \in DOMAIN new[i] :
                  out[Len(old) + i][c] = new[i][c]

\* append mode, an existing file with a row, a workbook whose only sheet in the
\* month range has no marker row: the file is left with the header alone
C12_ExistingRowsLost ==
    /\ imp.pc = "done"
    /\ imp.append_to_existing
    /\ imp.existing.exists
    /\ Len(imp.existing.table.rows) = 1
    /\ imp.sheets = <<ImpSheetT9>>
    /\ imp.all_rows = <<>>
    /\ imp.out_file.table = EmptyTable(EdengueColumns)

\* the k-th marker row of a grid, counted from the top
KthMarker(rows, k) == CHOOSE r \in MarkerRows(rows) : Rank(rows, r) = k

\* the sheets before place n that the importer has read
ReadBefore(n) ==
    {m \in 1..(n - 1) :
        SheetInRange(imp.sheets[m].name, imp.cfg.month_min, imp.cfg.month_max)}

\* the number of marker rows in the sheets read before place n
RECURSIVE MarkersBefore(_)
MarkersBefore(n) ==
    IF n <= 1 THEN 0
    ELSE MarkersBefore(n - 1)
         + (IF n - 1 \in ReadBefore(n)
            THEN Cardinality(MarkerRows(imp.sheets[n - 1].rows)) ELSE 0)

\* v is the number written by the first run of digits of name
IsFirstDigitRun(name, v) ==
    \E i \in 1..Len(name) : \E j \in i..Len(name) :
        /\ \A p \in 1..(i - 1) : ~IsDecDigit(name[p])
        /\ \A p \in i..j : IsDecDigit(name[p])
        /\ j = Len(name) \/ ~IsDecDigit(name[j + 1])
        /\ v = IntOf(SubSeq(name, i, j))

\* one Record per marker row of every sheet read, in sheet and row order, with the
\* month of the sheet's name; with_year: and with the year the caller imports
OneRecordPerMarkerRow(with_year) ==
    imp.pc \in {"sheets", "done"} =>
        /\ Len(imp.all_rows) = MarkersBefore(imp.next)
        /\ \A n \in ReadBefore(imp.next) :
              LET sh == imp.sheets[n]
              IN  \A k \in 1..Cardinality(MarkerRows(sh.rows)) :
                     LET rec == imp.all_rows[MarkersBefore(n) + k]
                         r == KthMarker(sh.rows, k)
                     IN  /\ IsFirstDigitRun(sh.name, rec.month)
                         /\ rec.den1 = safe_get(sh.rows, sh.width, r, imp.cfg.col_map[1])
                         /\ with_year => rec.year = imp.cfg.year

\* C13: the RowExtractor emits exactly one Record per marker row (a row with several
\* "TC" cells counts once), in row order; every Record carries the year the caller
\* supplies, whatever that year is, and the month parsed from the first run of
\* digits of the sheet's name.
C13_OneRecordPerMarkerRowWithCallerYear == OneRecordPerMarkerRow(TRUE)

\* a workbook of 2024 with the sheet "Thang 10": two Records, the second from a row
\* with two marker cells, month 10, and the year 2025
C13_YearIs2025 ==
    /\ imp.pc = "done"
    /\ imp.cfg.year = 2024
    /\ imp.sheets = <<ImpSheetThang10>>
    /\ Len(imp.all_rows) = 2
    /\ imp.all_rows[1].month = 10 /\ imp.all_rows[2].month = 10
    /\ imp.all_rows[1].year = 2025 /\ imp.all_rows[2].year = 2025
    /\ imp.all_rows[1].den1 = PyInt(12)

(***************************************************************************)
(* Cell coercion: safe_get and get_cell read one cell of a grid            *)
(***************************************************************************)
MaxCellLen == 3

CellChars == {"-", "0", "1", "5", ".", ",", "sp", "x"}

\* what pd.read_excel(dtype=object) can leave in a cell: NaN, a text, an int, a float
CellValues ==
    {Null} \cup {Str(s) : s \in BoundedSeqs(CellChars, MaxCellLen)}
           \cup {PyInt(0), PyInt(7), PyFloat(3, 0), PyFloat(25, 1)}

\* a grid of one row and one column, read at offset 0 or at offset 1 beyond its width
InitCell ==
    /\ cellx \in {[pc |-> "start", cell |-> v, offset |-> c,
                   row_done |-> FALSE, row_val |-> Null,
                   grid_done |-> FALSE, grid_val |-> Null] :
                     v \in CellValues, c \in {0, 1}}
    /\ norm = Idle /\ colres = Idle /\ rowx = Idle /\ gridx = Idle
    /\ aggr = Idle /\ dmoss = Idle /\ imp = Idle

CellOthers == <<norm, colres, rowx, gridx, aggr, dmoss, imp>>

\* the RowExtractor reads the cell: safe_get(0, offset)
ApplySafeGet ==
    /\ cellx.pc = "start"
    /\ ~cellx.row_done
    /\ cellx' = [cellx EXCEPT !.row_done = TRUE,
                              !.row_val = safe_get(<<<<cellx.cell>>>>, 1, 1, cellx.offset)]
    /\ UNCHANGED CellOthers

\* the GridMetricExtractor reads the cell: get_cell(0) at col_idx = offset
ApplyGetCell ==
    /\ cellx.pc = "start"
    /\ ~cellx.grid_done
    /\ cellx' = [cellx EXCEPT !.grid_done = TRUE,
                              !.grid_val = get_cell(<<<<cellx.cell>>>>, 1, 0, cellx.offset)]
    /\ UNCHANGED CellOthers

NextCell == ApplySafeGet \/ ApplyGetCell

SpecCell == InitCell /\ [][NextCell]_vars

\* the ways to read t as an optional minus sign, digits, and an optional point
\* followed by digits
DecimalReadings(t) ==
    LET b(neg) == IF neg THEN Tail(t) ELSE t
    IN  {rd \in [neg : BOOLEAN, p : 1..Len(t), q : 0..Len(t)] :
            /\ rd.neg => (t # <<>> /\ Head(t) = "-")
            /\ rd.p <= Len(b(rd.neg))
            /\ \A i \in 1..rd.p : IsDecDigit(b(rd.neg)[i])
            /\ IF rd.q = 0 THEN rd.p = Len(b(rd.neg))
               ELSE /\ rd.p + 1 + rd.q = Len(b(rd.neg))
                    /\ b(rd.neg)[rd.p + 1] = "."
                    /\ \A i \in (rd.p + 2)..Len(b(rd.neg)) : IsDecDigit(b(rd.neg)[i])}

\* the number v is the value of reading rd of t: an int when the decimal part is
\* absent or zero
IsValueOf(v, t, rd) ==
    LET b == IF rd.neg THEN Tail(t) ELSE t
        digits == SubSeq(b, 1, rd.p) \o SubSeq(b, rd.p + 2, Len(b))
        frac == SubSeq(b, rd.p + 2, Len(b))
        sign == IF rd.neg THEN -1 ELSE 1
    IN  /\ IsNum(v)
        /\ Mantissa(v) * Pow10(rd.q) = sign * IntOf(digits) * Pow10(Exponent(v))
        /\ IsInt(v) <=> IntOf(frac) = 0

\* the cell has no data for the reader: NaN, or an offset beyond the grid's width
IsMissing(cell, offset) == offset >= 1 \/ IsNull(cell)

\* C14: the RowExtractor's cell coercion never fails: the value read is 0 for a
\* blank or missing cell (also at an offset beyond the grid's width), the parsed
\* number for numeric-looking text (optional sign, digits, optional decimal part,
\* commas stripped; an integer when there is no fractional part), 0 for any other
\* text, and never null.
C14_CoercionNeverFails ==
    (cellx.pc = "start" /\ cellx.row_done) =>
        /\ ~IsNull(cellx.row_val)
        /\ IsMissing(cellx.cell, cellx.offset) => cellx.row_val = PyInt(0)
        /\ (~IsMissing(cellx.cell, cellx.offset) /\ IsStr(cellx.cell)) =>
              LET t == SelectSeq(Strip(cellx.cell.v), LAMBDA ch : ch # ",")
              IN  IF DecimalReadings(t) # {}
                  THEN \A rd \in DecimalReadings(t) : IsValueOf(cellx.row_val, t, rd)
                  ELSE cellx.row_val = PyInt(0)

\* the text "1.5" is read as the number 1.5
C14_Witness ==
    /\ cellx.pc = "start"
    /\ cellx.row_done
    /\ cellx.offset = 0
    /\ cellx.cell = Str(<<"1", ".", "5">>)
    /\ cellx.row_val = PyFloat(15, 1)

\* C15: for every non-blank cell the GridMetricExtractor's coerced value equals the
\* RowExtractor's: numeric-looking text is parsed to a number and any other text
\* becomes zero; the two paths differ on blank cells only.
C15_SameCoercionForNonBlank ==
    (cellx.pc = "start" /\ cellx.row_done /\ cellx.grid_done
        /\ ~IsMissing(cellx.cell, cellx.offset))
      => SameValue(cellx.grid_val, cellx.row_val)

\* the text "15": the number 15 for the RowExtractor, the text itself for the
\* GridMetricExtractor
C15_TextStaysText ==
    /\ cellx.pc = "start"
    /\ cellx.row_done /\ cellx.grid_done
    /\ cellx.offset = 0
    /\ cellx.cell = Str(<<"1", "5">>)
    /\ cellx.row_val = PyInt(15)
    /\ cellx.grid_val = Str(<<"1", "5">>)

\* the result cells of source row i that are not blank
FilledResultCells(i) ==
    {k \in 1..Len(ResultCols) :
        ~IsNull(aggr.rows[i][ColumnPos(aggr.columns, ResultCols[k])])}

====
